---- MODULE Spec2Model ----
(***************************************************************************)
(* A model of carousel_pdf/cli.py: image discovery (find_images), colour   *)
(* parsing (hex_to_rgb), canvas normalisation (resize_canvas) and the      *)
(* command's run (main).                                                    *)
(*                                                                         *)
(* File names are sequences of one-character strings, so that suffixes,    *)
(* lower-casing, glob matching and the natural-sort key are computed, not  *)
(* assumed.  Images are records of size and mode; a canvas records its     *)
(* size, its mode and the rectangle the fitted source was pasted at.       *)
(***************************************************************************)
EXTENDS Integers, Sequences, FiniteSets, TLC

VARIABLES
    args,        \* the command's arguments and options (main's parameters)
    pc,          \* main's position
    target_w,    \* main: target_w (0 before it is set)
    target_h,    \* main: target_h
    bg_rgb,      \* main: bg_rgb (<<>> before it is set)
    discovered,  \* whether find_images has run
    imgs,        \* main: imgs, the discovered paths
    k,           \* main: number of loop iterations completed
    normalized,  \* main: normalized, the canvases so far
    opened,      \* the paths Image.open was called on, in order
    console,     \* what console.print printed, in order
    exit_code,   \* the process's exit code (-1 while running)
    error,       \* the exception that ended the run ("" if none)
    disk,        \* what the run wrote: export directory, slides, PDF pages
    rc_pc,       \* resize_canvas's position
    src,         \* resize_canvas: the image passed in
    im,          \* resize_canvas: the local im
    inner,       \* resize_canvas: <<inner_w, inner_h>>
    crop,        \* which sides the fit step cropped
    canvas,      \* resize_canvas: the canvas
    rc_err       \* the exception resize_canvas raised ("" if none)

vars == <<args, pc, target_w, target_h, bg_rgb, discovered, imgs, k,
          normalized, opened, console, exit_code, error, disk,
          rc_pc, src, im, inner, crop, canvas, rc_err>>

mainVars == <<pc, discovered, imgs, k, normalized, opened, console,
              exit_code, error, disk>>

resizeVars == <<rc_pc, src, im, inner, crop, canvas, rc_err>>

-----------------------------------------------------------------------------
(* Bounds of the model *)

MaxSrc == 4
MaxTarget == 5
MaxMargin == 2
MaxPaths == 2

-----------------------------------------------------------------------------
(* Characters and strings *)

Digits == <<"0", "1", "2", "3", "4", "5", "6", "7", "8", "9">>
Uppers == <<"A", "B", "C", "D", "E", "F", "G", "H", "I", "J", "K", "L", "M",
            "N", "O", "P", "Q", "R", "S", "T", "U", "V", "W", "X", "Y", "Z">>
Lowers == <<"a", "b", "c", "d", "e", "f", "g", "h", "i", "j", "k", "l", "m",
            "n", "o", "p", "q", "r", "s", "t", "u", "v", "w", "x", "y", "z">>

IndexIn(c, s) == CHOOSE i \in 1..Len(s) : s[i] = c
IsIn(c, s) == \E i \in 1..Len(s) : s[i] = c
IsDigit(c) == IsIn(c, Digits)
DigitVal(c) == IndexIn(c, Digits) - 1

\* ord(c) for the characters file names are written in
Ord(c) ==
    IF IsDigit(c) THEN 48 + DigitVal(c)
    ELSE IF IsIn(c, Uppers) THEN 64 + IndexIn(c, Uppers)
    ELSE IF IsIn(c, Lowers) THEN 96 + IndexIn(c, Lowers)
    ELSE IF c = "." THEN 46
    ELSE IF c = "_" THEN 95
    ELSE 45

\* str.lower() on one character
LowerChar(c) == IF IsIn(c, Uppers) THEN Lowers[IndexIn(c, Uppers)] ELSE c

\* str.lower()
StrLower(s) == [i \in 1..Len(s) |-> LowerChar(s[i])]

\* str < str: lexicographic by code point
RECURSIVE StrLess(_, _)
StrLess(a, b) ==
    IF a = <<>> THEN b # <<>>
    ELSE IF b = <<>> THEN FALSE
    ELSE IF a[1] = b[1] THEN StrLess(Tail(a), Tail(b))
    ELSE Ord(a[1]) < Ord(b[1])

EndsWith(s, suffix) ==
    /\ Len(suffix) <= Len(s)
    /\ SubSeq(s, Len(s) - Len(suffix) + 1, Len(s)) = suffix

\* pathlib's PurePath.suffix: the name from its last dot on, unless that dot
\* is the first or the last character
PathSuffix(name) ==
    LET dots == {i \in 1..Len(name) : name[i] = "."}
    IN  IF dots = {} THEN <<>>
        ELSE LET p == CHOOSE i \in dots : \A j \in dots : j <= i
             IN  IF p > 1 /\ p < Len(name) THEN SubSeq(name, p, Len(name))
                 ELSE <<>>

-----------------------------------------------------------------------------
(* Images *)

Modes == {"RGB", "P", "RGBA", "LA"}

NoImage == [id |-> "", w |-> 0, h |-> 0, mode |-> "", transparency |-> FALSE,
            corrupt |-> "none", composited |-> FALSE]

NoCanvas == [w |-> 0, h |-> 0, mode |-> "", bg |-> <<>>, of |-> "",
             x |-> 0, y |-> 0, fw |-> 0, fh |-> 0]

Max(a, b) == IF a >= b THEN a ELSE b
Min(a, b) == IF a <= b THEN a ELSE b

\* Python's round() of the rational n/d (n >= 0, d > 0): half to even
Round(n, d) ==
    LET q == n \div d
        r == n % d
    IN  IF 2 * r < d THEN q
        ELSE IF 2 * r > d THEN q + 1
        ELSE IF q % 2 = 0 THEN q ELSE q + 1

\* ContainSize with the comparison of the ratios the wrong way round: the
\* image covers the box instead of fitting in it
ContainSizeSwapped(w, h, bw, bh) ==
    IF w * bh = h * bw THEN <<bw, bh>>
    ELSE IF w * bh < h * bw THEN <<bw, Round(h * bw, w)>>
    ELSE <<Round(w * bh, h), bh>>

\* the size ImageOps.contain resizes to: the box when the ratios agree, else
\* the box with the other side round(side * scale).  The library computes
\* the ratios and the product in floating point; for the sizes within the
\* bounds that agrees with the exact rational arithmetic used here.
ContainSize(w, h, bw, bh) ==
    IF w * bh = h * bw THEN <<bw, bh>>
    ELSE IF w * bh > h * bw THEN <<bw, Round(h * bw, w)>>
    ELSE <<Round(w * bh, h), bh>>

\* the side ImageOps.fit crops, and the size it resizes the crop to
FitCrop(w, h, bw, bh) ==
    IF w * bh = h * bw THEN "none"
    ELSE IF w * bh > h * bw THEN "sides"
    ELSE "top_bottom"

\* ImageOpsFit without the crop: the source scaled until it covers the box
ImageOpsFitNoCrop(w, h, bw, bh) ==
    IF w * bh = h * bw THEN <<bw, bh>>
    ELSE IF w * bh > h * bw THEN <<Max(bw, Round(w * bh, h)), bh>>
    ELSE <<bw, Max(bh, Round(h * bw, w))>>

ImageOpsFit(w, h, bw, bh) == <<bw, bh>>

\* InnerBox with the margin taken off once, not on both sides
InnerBoxOneSide(tw, th, margin) == <<Max(1, tw - margin), Max(1, th - margin)>>

InnerBox(tw, th, margin) == <<Max(1, tw - 2 * margin), Max(1, th - 2 * margin)>>

\* whether resize_canvas composites the image over the background
HasAlpha(image) ==
    \/ image.mode \in {"RGBA", "LA"}
    \/ image.mode = "P" /\ image.transparency

-----------------------------------------------------------------------------
(* resize_canvas, one action per step.  Its parameters are main's          *)
(* variables: target_w, target_h, args.fit, bg_rgb, args.margin.           *)

\* im.convert / compositing: decodes the image data, so truncated data
\* raises here (Image.open reads the header only); the result is RGB, of
\* the source's size
Flatten ==
    /\ rc_pc = "enter"
    /\ IF im.corrupt = "data"
       THEN /\ rc_pc' = "raised"
            /\ rc_err' = "OSError"
            /\ im' = im
       ELSE /\ rc_pc' = "flattened"
            /\ rc_err' = rc_err
            /\ im' = [im EXCEPT !.mode = "RGB", !.composited = HasAlpha(im)]
    /\ UNCHANGED <<args, target_w, target_h, bg_rgb, mainVars,
                   src, inner, crop, canvas>>

\* ImageOps.contain, which resizes to ContainSize; Image.resize raises
\* ValueError for a size with a zero in it
FitContain ==
    /\ rc_pc = "flattened"
    /\ args.fit = "contain"
    /\ LET box == InnerBox(target_w, target_h, args.margin)
           size == ContainSize(im.w, im.h, box[1], box[2])
       IN  /\ inner' = box
           /\ IF size[1] < 1 \/ size[2] < 1
              THEN /\ rc_pc' = "raised"
                   /\ rc_err' = "ValueError"
                   /\ UNCHANGED <<im, crop>>
              ELSE /\ rc_pc' = "fitted"
                   /\ rc_err' = rc_err
                   /\ im' = [im EXCEPT !.w = size[1], !.h = size[2]]
                   /\ crop' = "none"
    /\ UNCHANGED <<args, target_w, target_h, bg_rgb, mainVars, src, canvas>>

\* ImageOps.fit: resize of the centred crop box to the inner box
FitCover ==
    /\ rc_pc = "flattened"
    /\ args.fit = "cover"
    /\ LET box == InnerBox(target_w, target_h, args.margin)
           size == ImageOpsFit(im.w, im.h, box[1], box[2])
       IN  /\ inner' = box
           /\ im' = [im EXCEPT !.w = size[1], !.h = size[2]]
           /\ crop' = FitCrop(im.w, im.h, box[1], box[2])
    /\ rc_pc' = "fitted"
    /\ UNCHANGED <<args, target_w, target_h, bg_rgb, mainVars,
                   src, canvas, rc_err>>

\* the else branch: any other fit raises typer.BadParameter
FitInvalid ==
    /\ rc_pc = "flattened"
    /\ args.fit \notin {"contain", "cover"}
    /\ inner' = InnerBox(target_w, target_h, args.margin)
    /\ rc_pc' = "raised"
    /\ rc_err' = "BadParameter"
    /\ UNCHANGED <<args, target_w, target_h, bg_rgb, mainVars,
                   src, im, crop, canvas>>

\* NewCanvas with the canvas allocated at the fitted image's size
NewCanvasOfFittedSize(tw, th, bg, fitted) ==
    [w |-> fitted.w, h |-> fitted.h, mode |-> "RGB", bg |-> bg,
     of |-> fitted.id, x |-> 0, y |-> 0, fw |-> fitted.w, fh |-> fitted.h]

\* Image.new("RGB", (target_w, target_h), bg), the centred paste, return
NewCanvas(tw, th, bg, fitted) ==
    [w |-> tw, h |-> th, mode |-> "RGB", bg |-> bg, of |-> fitted.id,
     x |-> (tw - fitted.w) \div 2, y |-> (th - fitted.h) \div 2,
     fw |-> fitted.w, fh |-> fitted.h]

Paste ==
    /\ rc_pc = "fitted"
    /\ canvas' = NewCanvas(target_w, target_h, bg_rgb, im)
    /\ rc_pc' = "returned"
    /\ UNCHANGED <<args, target_w, target_h, bg_rgb, mainVars,
                   src, im, inner, crop, rc_err>>

ResizeCanvas == Flatten \/ FitContain \/ FitCover \/ FitInvalid \/ Paste

-----------------------------------------------------------------------------
(* resize_canvas on its own: every source, target, margin and fit within   *)
(* the bounds                                                              *)

FitValues == {"contain", "cover", "stretch"}

White == <<255, 255, 255>>

\* an option that was not given is <<>>, one given as v is <<v>>
NoArgs == [paths |-> <<>>, width |-> <<>>, height |-> <<>>, square |-> FALSE,
           fit |-> "contain", bg |-> "#ffffff", margin |-> 0,
           export_dir |-> FALSE, posix |-> TRUE]

InitResize ==
    /\ \E f \in FitValues, m \in 0..MaxMargin :
           args = [NoArgs EXCEPT !.fit = f, !.margin = m]
    /\ target_w \in 1..MaxTarget
    /\ target_h \in 1..MaxTarget
    /\ bg_rgb = White
    /\ \E w \in 1..MaxSrc, h \in 1..MaxSrc, md \in Modes, t \in BOOLEAN :
           src = [NoImage EXCEPT !.id = "source", !.w = w, !.h = h,
                                 !.mode = md, !.transparency = t]
    /\ im = src
    /\ rc_pc = "enter"
    /\ inner = <<0, 0>>
    /\ crop = "none"
    /\ canvas = NoCanvas
    /\ rc_err = ""
    /\ pc = "idle"
    /\ discovered = FALSE
    /\ imgs = <<>>
    /\ k = 0
    /\ normalized = <<>>
    /\ opened = <<>>
    /\ console = <<>>
    /\ exit_code = -1
    /\ error = ""
    /\ disk = [dir_made |-> FALSE, slides |-> <<>>, pdf |-> <<>>,
               pdf_written |-> FALSE]

NextResize == ResizeCanvas

SpecResize == InitResize /\ [][NextResize]_vars

-----------------------------------------------------------------------------
(* The file system the command runs on, in directory-listing order: a deck *)
(* of slides with a nested directory, a directory with no image, and files *)
(* passed directly.  corrupt = "header": Image.open cannot identify the    *)
(* file; corrupt = "data": the header reads and decoding fails.            *)

Files == <<
    [path |-> "deck/slide10.png", name |-> <<"s", "l", "i", "d", "e", "1", "0", ".", "p", "n", "g">>,
     under |-> {"deck"},
     img |-> [id |-> "deck/slide10.png", w |-> 1080, h |-> 1350, mode |-> "P",
              transparency |-> TRUE, corrupt |-> "none", composited |-> FALSE]],
    [path |-> "deck/slide2.png", name |-> <<"s", "l", "i", "d", "e", "2", ".", "p", "n", "g">>,
     under |-> {"deck"},
     img |-> [id |-> "deck/slide2.png", w |-> 800, h |-> 600, mode |-> "RGBA",
              transparency |-> FALSE, corrupt |-> "none", composited |-> FALSE]],
    [path |-> "deck/slide1.png", name |-> <<"s", "l", "i", "d", "e", "1", ".", "p", "n", "g">>,
     under |-> {"deck"},
     img |-> [id |-> "deck/slide1.png", w |-> 2000, h |-> 1000, mode |-> "RGB",
              transparency |-> FALSE, corrupt |-> "none", composited |-> FALSE]],
    [path |-> "deck/sub/Photo.PNG", name |-> <<"P", "h", "o", "t", "o", ".", "P", "N", "G">>,
     under |-> {"deck", "deck/sub"},
     img |-> [id |-> "deck/sub/Photo.PNG", w |-> 640, h |-> 480, mode |-> "LA",
              transparency |-> FALSE, corrupt |-> "none", composited |-> FALSE]],
    [path |-> "deck/notes.txt", name |-> <<"n", "o", "t", "e", "s", ".", "t", "x", "t">>,
     under |-> {"deck"},
     img |-> [id |-> "deck/notes.txt", w |-> 0, h |-> 0, mode |-> "",
              transparency |-> FALSE, corrupt |-> "header", composited |-> FALSE]],
    [path |-> "empty/readme.txt", name |-> <<"r", "e", "a", "d", "m", "e", ".", "t", "x", "t">>,
     under |-> {"empty"},
     img |-> [id |-> "empty/readme.txt", w |-> 0, h |-> 0, mode |-> "",
              transparency |-> FALSE, corrupt |-> "header", composited |-> FALSE]],
    [path |-> "cover.JPG", name |-> <<"c", "o", "v", "e", "r", ".", "J", "P", "G">>,
     under |-> {},
     img |-> [id |-> "cover.JPG", w |-> 1200, h |-> 1200, mode |-> "RGB",
              transparency |-> FALSE, corrupt |-> "none", composited |-> FALSE]],
    [path |-> "broken.png", name |-> <<"b", "r", "o", "k", "e", "n", ".", "p", "n", "g">>,
     under |-> {},
     img |-> [id |-> "broken.png", w |-> 0, h |-> 0, mode |-> "",
              transparency |-> FALSE, corrupt |-> "header", composited |-> FALSE]],
    [path |-> "trunc.jpeg", name |-> <<"t", "r", "u", "n", "c", ".", "j", "p", "e", "g">>,
     under |-> {},
     img |-> [id |-> "trunc.jpeg", w |-> 1000, h |-> 1500, mode |-> "RGB",
              transparency |-> FALSE, corrupt |-> "data", composited |-> FALSE]],
    [path |-> "wide.webp", name |-> <<"w", "i", "d", "e", ".", "w", "e", "b", "p">>,
     under |-> {},
     img |-> [id |-> "wide.webp", w |-> 3000, h |-> 1, mode |-> "RGB",
              transparency |-> TRUE, corrupt |-> "none", composited |-> FALSE]]
>>

Dirs == {"deck", "empty"}

\* what can be given as a path argument (each exists and is readable)
PathArgs == Dirs \cup {"cover.JPG", "broken.png", "trunc.jpeg", "wide.webp",
                       "deck/notes.txt"}

FileAt(p) == Files[CHOOSE i \in 1..Len(Files) : Files[i].path = p]
IsDir(p) == p \in Dirs
IsFile(p) == \E i \in 1..Len(Files) : Files[i].path = p

-----------------------------------------------------------------------------
(* find_images *)

IMAGE_EXTS == <<<<".", "p", "n", "g">>,
                <<".", "j", "p", "g">>,
                <<".", "j", "p", "e", "g">>,
                <<".", "w", "e", "b", "p">>>>

ExtSet == {IMAGE_EXTS[i] : i \in 1..Len(IMAGE_EXTS)}

\* the pattern "**/*" + ext against a file name.  pathlib matches names
\* case-sensitively on POSIX and case-insensitively on Windows.
GlobMatch(name, ext, posix) ==
    IF posix THEN EndsWith(name, ext) ELSE EndsWith(StrLower(name), ext)

\* p.glob("**/*" + ext): the files under p, at any depth, that match
Glob(p, ext, posix) ==
    LET hits == SelectSeq(Files, LAMBDA f : p \in f.under
                                            /\ GlobMatch(f.name, ext, posix))
    IN  [i \in 1..Len(hits) |-> hits[i].path]

RECURSIVE GlobAll(_, _, _)
GlobAll(p, exts, posix) ==
    IF exts = <<>> THEN <<>>
    ELSE Glob(p, Head(exts), posix) \o GlobAll(p, Tail(exts), posix)

\* the body of the loop over paths
FilesOfPath(p, posix) ==
    IF IsDir(p) THEN GlobAll(p, IMAGE_EXTS, posix)
    ELSE IF IsFile(p) /\ StrLower(PathSuffix(FileAt(p).name)) \in ExtSet
    THEN <<p>>
    ELSE <<>>

RECURSIVE Collect(_, _)
Collect(paths, posix) ==
    IF paths = <<>> THEN <<>>
    ELSE FilesOfPath(Head(paths), posix) \o Collect(Tail(paths), posix)

\* natsort's key of a string: its maximal digit runs as integers, the text
\* between them as strings, and an empty string in front of a leading number
RECURSIVE RunLen(_, _)
RunLen(s, d) ==
    IF s = <<>> \/ IsDigit(s[1]) # d THEN 0 ELSE 1 + RunLen(Tail(s), d)

RECURSIVE ToInt(_)
ToInt(s) ==
    IF s = <<>> THEN 0
    ELSE 10 * ToInt(SubSeq(s, 1, Len(s) - 1)) + DigitVal(s[Len(s)])

RECURSIVE SplitChunks(_)
SplitChunks(s) ==
    IF s = <<>> THEN <<>>
    ELSE LET d == IsDigit(s[1])
             n == RunLen(s, d)
             run == SubSeq(s, 1, n)
             chunk == IF d THEN [num |-> TRUE, str |-> <<>>, val |-> ToInt(run)]
                      ELSE [num |-> FALSE, str |-> run, val |-> 0]
         IN  <<chunk>> \o SplitChunks(SubSeq(s, n + 1, Len(s)))

\* NatsortKey without the split: the name as one string, as sorted() orders
LexicographicKey(name) == <<[num |-> FALSE, str |-> name, val |-> 0]>>

NatsortKey(name) ==
    LET chunks == SplitChunks(name)
    IN  IF chunks # <<>> /\ chunks[1].num
        THEN <<[num |-> FALSE, str |-> <<>>, val |-> 0]>> \o chunks
        ELSE chunks

\* tuple < tuple, as Python compares the keys
RECURSIVE KeyLess(_, _)
KeyLess(a, b) ==
    IF a = <<>> THEN b # <<>>
    ELSE IF b = <<>> THEN FALSE
    ELSE IF a[1] = b[1] THEN KeyLess(Tail(a), Tail(b))
    ELSE IF a[1].num THEN a[1].val < b[1].val
    ELSE StrLess(a[1].str, b[1].str)

SortKey(p) == NatsortKey(FileAt(p).name)

\* sorted(): stable, so an element goes after those whose key is not greater
RECURSIVE InsertByKey(_, _)
InsertByKey(sorted, p) ==
    IF sorted = <<>> THEN <<p>>
    ELSE IF KeyLess(SortKey(p), SortKey(sorted[Len(sorted)]))
    THEN Append(InsertByKey(SubSeq(sorted, 1, Len(sorted) - 1), p),
                sorted[Len(sorted)])
    ELSE Append(sorted, p)

RECURSIVE Natsorted(_)
Natsorted(files) ==
    IF files = <<>> THEN <<>>
    ELSE InsertByKey(Natsorted(SubSeq(files, 1, Len(files) - 1)),
                     files[Len(files)])

find_images(paths, posix) == Natsorted(Collect(paths, posix))

-----------------------------------------------------------------------------
(* hex_to_rgb: ImageColor.getrgb raises for a string that is no colour     *)

Colors == {"#ffffff", "#12"}

ValidColor(color) == color \in {"#ffffff", "red"}

hex_to_rgb(color) == IF color = "red" THEN <<255, 0, 0>> ELSE White

-----------------------------------------------------------------------------
(* main, one action per statement *)

DefaultWidth == 1080
DefaultHeight == 1350
SquareHeight == 1080

NoDisk == [dir_made |-> FALSE, slides |-> <<>>, pdf |-> <<>>,
           pdf_written |-> FALSE]

\* an exception leaves main: typer reports a BadParameter as a usage error
\* (exit code 2), typer.Exit(code=1) and any other exception exit with 1
Fail(err) ==
    /\ pc' = "failed"
    /\ error' = err
    /\ exit_code' = IF err = "BadParameter" THEN 2 ELSE 1

\* width/height given together or not at all; the target size
ValidateSize ==
    /\ pc = "validate"
    /\ IF (args.width = <<>>) # (args.height = <<>>)
       THEN /\ Fail("BadParameter")
            /\ UNCHANGED <<target_w, target_h>>
       ELSE /\ pc' = "color"
            /\ UNCHANGED <<error, exit_code>>
            /\ IF args.width = <<>> /\ args.height = <<>>
               THEN /\ target_w' = DefaultWidth
                    /\ target_h' = IF args.square THEN SquareHeight
                                   ELSE DefaultHeight
               ELSE /\ target_w' = args.width[1]
                    /\ target_h' = args.height[1]
    /\ UNCHANGED <<args, bg_rgb, discovered, imgs, k, normalized, opened,
                   console, disk, resizeVars>>

\* ParseColor falling back to white for a string that is no colour
ParseColorLenient ==
    /\ pc = "color"
    /\ bg_rgb' = IF ValidColor(args.bg) THEN hex_to_rgb(args.bg) ELSE White
    /\ pc' = "find"
    /\ UNCHANGED <<args, target_w, target_h, discovered, imgs, k, normalized,
                   opened, console, disk, resizeVars, error, exit_code>>

\* bg_rgb = hex_to_rgb(bg)
ParseColor ==
    /\ pc = "color"
    /\ IF ValidColor(args.bg)
       THEN /\ bg_rgb' = hex_to_rgb(args.bg)
            /\ pc' = "find"
            /\ UNCHANGED <<error, exit_code>>
       ELSE /\ Fail("BadParameter")
            /\ UNCHANGED bg_rgb
    /\ UNCHANGED <<args, target_w, target_h, discovered, imgs, k, normalized,
                   opened, console, disk, resizeVars>>

\* FindImages without the check for an empty list
FindImagesUnchecked ==
    /\ pc = "find"
    /\ discovered' = TRUE
    /\ imgs' = find_images(args.paths, args.posix)
    /\ console' = Append(console, "Slides")
    /\ pc' = "loop"
    /\ UNCHANGED <<args, target_w, target_h, bg_rgb, k, normalized, opened,
                   disk, resizeVars, error, exit_code>>

\* imgs = find_images(paths); no image: report it and exit with code 1
FindImages ==
    /\ pc = "find"
    /\ discovered' = TRUE
    /\ imgs' = find_images(args.paths, args.posix)
    /\ IF imgs' = <<>>
       THEN /\ console' = Append(console, "No images found.")
            /\ Fail("Exit")
       ELSE /\ console' = Append(console, "Slides")
            /\ pc' = "loop"
            /\ UNCHANGED <<error, exit_code>>
    /\ UNCHANGED <<args, target_w, target_h, bg_rgb, k, normalized, opened,
                   disk, resizeVars>>

\* im = Image.open(p), and the call of resize_canvas
OpenImage ==
    /\ pc = "loop"
    /\ rc_pc = "idle"
    /\ k < Len(imgs)
    /\ LET f == FileAt(imgs[k + 1])
       IN  /\ opened' = Append(opened, f.path)
           /\ IF f.img.corrupt = "header"
              THEN /\ Fail("UnidentifiedImageError")
                   /\ UNCHANGED resizeVars
              ELSE /\ src' = f.img
                   /\ im' = f.img
                   /\ rc_pc' = "enter"
                   /\ inner' = <<0, 0>>
                   /\ crop' = "none"
                   /\ canvas' = NoCanvas
                   /\ rc_err' = ""
                   /\ UNCHANGED <<pc, error, exit_code>>
    /\ UNCHANGED <<args, target_w, target_h, bg_rgb, discovered, imgs, k,
                   normalized, console, disk>>

\* normalized.append(canvas)
AppendCanvas ==
    /\ pc = "loop"
    /\ rc_pc = "returned"
    /\ normalized' = Append(normalized, canvas)
    /\ k' = k + 1
    /\ rc_pc' = "idle"
    /\ UNCHANGED <<args, pc, target_w, target_h, bg_rgb, discovered, imgs,
                   opened, console, exit_code, error, disk,
                   src, im, inner, crop, canvas, rc_err>>

\* resize_canvas raised: nothing catches it
Propagate ==
    /\ pc = "loop"
    /\ rc_pc = "raised"
    /\ Fail(rc_err)
    /\ UNCHANGED <<args, target_w, target_h, bg_rgb, discovered, imgs, k,
                   normalized, opened, console, disk, resizeVars>>

\* after the loop: if export_dir, export_dir.mkdir(parents, exist_ok)
ExportDir ==
    /\ pc = "loop"
    /\ rc_pc = "idle"
    /\ k = Len(imgs)
    /\ IF args.export_dir
       THEN /\ disk' = [disk EXCEPT !.dir_made = TRUE]
            /\ pc' = "export"
       ELSE /\ disk' = disk
            /\ pc' = "pdf"
    /\ UNCHANGED <<args, target_w, target_h, bg_rgb, discovered, imgs, k,
                   normalized, opened, console, exit_code, error, resizeVars>>

\* im.save(export_dir / slide_<i>.jpg) for the next i
ExportSlide ==
    /\ pc = "export"
    /\ Len(disk.slides) < Len(normalized)
    /\ disk' = [disk EXCEPT
                  !.slides = Append(@, normalized[Len(disk.slides) + 1])]
    /\ pc' = IF Len(disk'.slides) = Len(normalized) THEN "pdf" ELSE "export"
    /\ UNCHANGED <<args, target_w, target_h, bg_rgb, discovered, imgs, k,
                   normalized, opened, console, exit_code, error, resizeVars>>

\* the save raises (the file cannot be written); the slides saved stay
ExportSlideFails ==
    /\ pc = "export"
    /\ Len(disk.slides) < Len(normalized)
    /\ Fail("OSError")
    /\ UNCHANGED <<args, target_w, target_h, bg_rgb, discovered, imgs, k,
                   normalized, opened, console, disk, resizeVars>>

\* SavePdf inside the loop: the PDF rewritten after each image
SavePdfInLoop ==
    /\ pc \in {"loop", "pdf"}
    /\ rc_pc = "idle"
    /\ normalized # <<>>
    /\ disk.pdf # normalized
    /\ disk' = [disk EXCEPT !.pdf = normalized, !.pdf_written = TRUE]
    /\ console' = Append(console, "Saved")
    /\ pc' = IF pc = "pdf" THEN "done" ELSE pc
    /\ exit_code' = IF pc = "pdf" THEN 0 ELSE exit_code
    /\ UNCHANGED <<args, target_w, target_h, bg_rgb, discovered, imgs, k,
                   normalized, opened, error, resizeVars>>

\* first.save(output, "PDF", save_all=True, append_images=rest)
SavePdf ==
    /\ pc = "pdf"
    /\ LET first == normalized[1]
           rest == Tail(normalized)
       IN  disk' = [disk EXCEPT !.pdf = <<first>> \o rest,
                                !.pdf_written = TRUE]
    /\ console' = Append(console, "Saved")
    /\ pc' = "done"
    /\ exit_code' = 0
    /\ UNCHANGED <<args, target_w, target_h, bg_rgb, discovered, imgs, k,
                   normalized, opened, error, resizeVars>>

-----------------------------------------------------------------------------
(* A run of the command *)

PathLists == UNION {[1..n -> PathArgs] : n \in 1..MaxPaths}

Init ==
    /\ args \in [paths : PathLists,
                 width : {<<>>, <<500>>},
                 height : {<<>>, <<400>>},
                 square : BOOLEAN,
                 fit : FitValues,
                 bg : Colors,
                 margin : {0, 40},
                 export_dir : BOOLEAN,
                 posix : BOOLEAN]
    /\ pc = "validate"
    /\ target_w = 0
    /\ target_h = 0
    /\ bg_rgb = <<>>
    /\ discovered = FALSE
    /\ imgs = <<>>
    /\ k = 0
    /\ normalized = <<>>
    /\ opened = <<>>
    /\ console = <<>>
    /\ exit_code = -1
    /\ error = ""
    /\ disk = NoDisk
    /\ rc_pc = "idle"
    /\ src = NoImage
    /\ im = NoImage
    /\ inner = <<0, 0>>
    /\ crop = "none"
    /\ canvas = NoCanvas
    /\ rc_err = ""

Next ==
    \/ ValidateSize
    \/ ParseColor
    \/ FindImages
    \/ OpenImage
    \/ ResizeCanvas
    \/ AppendCanvas
    \/ Propagate
    \/ ExportDir
    \/ ExportSlide
    \/ ExportSlideFails
    \/ SavePdf

Spec == Init /\ [][Next]_vars

-----------------------------------------------------------------------------
(* Properties *)

ValidFit == args.fit \in {"contain", "cover"}

\* the margin leaves a proper inner box
MarginFits ==
    /\ target_w >= 1
    /\ target_h >= 1
    /\ args.margin >= 0
    /\ 2 * args.margin < Min(target_w, target_h)

\* C1: for every source mode, fit in {contain, cover} and target/margin with
\* 2*margin < min(target_w, target_h), the canvas resize_canvas returns is
\* exactly target_w x target_h and in mode RGB.
C1_CanvasIsTargetSizedRGB ==
    (rc_pc = "returned" /\ ValidFit /\ MarginFits)
        => /\ canvas.w = target_w
           /\ canvas.h = target_h
           /\ canvas.mode = "RGB"

\* a canvas returned for a palette source with transparency, smaller than
\* the target, with a margin
C1_Witness ==
    /\ rc_pc = "returned" /\ ValidFit /\ MarginFits
    /\ src.mode = "P" /\ src.transparency
    /\ args.margin = 1
    /\ src.w < target_w /\ src.h > 1

\* C2 (as claimed): with a fit outside {contain, cover} no image is opened
\* and resize_canvas does not get as far as flattening the source.
C2_InvalidFitFailsBeforeImageWork ==
    ~ValidFit => (opened = <<>> /\ rc_pc # "flattened")

\* C3: in contain mode the fitted image is no wider and no taller than the
\* inner box, fills it on one axis and is not cropped; a 2000x1000 source in
\* a 1080x1350 box is fitted to 1080x540.
C3_ContainFitsInsideInnerBox ==
    /\ (args.fit = "contain" /\ rc_pc \in {"fitted", "returned"})
          => /\ src.w >= 1 /\ src.h >= 1 /\ inner[1] >= 1 /\ inner[2] >= 1
             /\ im.w <= inner[1]
             /\ im.h <= inner[2]
             /\ (im.w = inner[1] \/ im.h = inner[2])
             /\ crop = "none"
    /\ ContainSize(2000, 1000, 1080, 1350) = <<1080, 540>>

\* a source scaled up to the box's width, letterboxed above and below
C3_Witness ==
    /\ args.fit = "contain" /\ rc_pc = "fitted"
    /\ im.w = inner[1] /\ im.h < inner[2]
    /\ src.w < im.w
    /\ args.margin = 1

\* C4: in cover mode the fitted image is exactly the inner box,
\* max(1, target_w - 2*margin) x max(1, target_h - 2*margin).
C4_CoverFillsInnerBox ==
    (args.fit = "cover" /\ rc_pc \in {"fitted", "returned"})
        => /\ im.w = (IF target_w - 2 * args.margin >= 1
                      THEN target_w - 2 * args.margin ELSE 1)
           /\ im.h = (IF target_h - 2 * args.margin >= 1
                      THEN target_h - 2 * args.margin ELSE 1)

\* a source of another aspect ratio, cropped, with a margin
C4_Witness ==
    /\ args.fit = "cover" /\ rc_pc = "fitted"
    /\ crop = "sides"
    /\ args.margin = 1
    /\ im.w # src.w /\ im.h # src.h

\* C10: the fitted image is pasted at ((target_w - fitted_w) // 2,
\* (target_h - fitted_h) // 2), and with 2*margin < min(target_w, target_h)
\* the pasted rectangle keeps margin pixels of background on all four sides.
C10_PasteCentredInsideMargin ==
    (rc_pc = "returned" /\ ValidFit /\ MarginFits)
        => /\ canvas.fw = im.w /\ canvas.fh = im.h
           /\ canvas.x = (target_w - im.w) \div 2
           /\ canvas.y = (target_h - im.h) \div 2
           /\ canvas.x >= args.margin
           /\ canvas.y >= args.margin
           /\ canvas.x + im.w <= target_w - args.margin
           /\ canvas.y + im.h <= target_h - args.margin

\* a letterboxed paste with a margin: more than margin left above it
C10_Witness ==
    /\ rc_pc = "returned" /\ args.fit = "contain" /\ MarginFits
    /\ args.margin >= 1
    /\ canvas.x = args.margin
    /\ canvas.y > args.margin

\* C5: the PDF is written only after every discovered image was opened and
\* normalised; a run that fails writes no PDF; export files are written only
\* after all images were normalised, so a failure in the batch leaves
\* nothing on disk.
C5_PdfOnlyAfterAllImages ==
    /\ disk.pdf_written
          => /\ Len(normalized) = Len(imgs)
             /\ Len(opened) = Len(imgs)
             /\ (args.export_dir => Len(disk.slides) = Len(imgs))
    /\ pc = "failed" => ~disk.pdf_written
    /\ (disk.dir_made \/ disk.slides # <<>>)
          => Len(normalized) = Len(imgs)
    /\ (pc = "failed" /\ Len(normalized) < Len(imgs)) => disk = NoDisk

\* a run with an export directory that fails on a later image of the batch
C5_Witness ==
    /\ pc = "failed"
    /\ Len(normalized) >= 1
    /\ Len(normalized) < Len(imgs)
    /\ args.export_dir

\* C6: with no matching image file, main reports "No images found.", exits
\* with code 1 and writes nothing.
C6_NoImagesExitsWithOne ==
    (discovered /\ imgs = <<>>)
        => /\ pc = "failed"
           /\ exit_code = 1
           /\ console = <<"No images found.">>
           /\ opened = <<>>
           /\ disk = NoDisk

\* an empty directory and a file that is no image, export requested
C6_Witness ==
    /\ discovered /\ imgs = <<>>
    /\ args.paths = <<"empty", "deck/notes.txt">>
    /\ args.export_dir
    /\ exit_code = 1

\* C7: with exactly one of --width/--height, or a malformed colour, main
\* ends with a parameter error before discovery, before any image is opened
\* and before anything is written.
C7_BadOptionsAbortBeforeDiscovery ==
    ((args.width = <<>>) # (args.height = <<>>) \/ args.bg = "#12")
        => /\ ~discovered
           /\ imgs = <<>>
           /\ opened = <<>>
           /\ disk = NoDisk
           /\ pc \in {"validate", "color", "failed"}
           /\ (pc = "failed" => error = "BadParameter" /\ exit_code = 2)

\* a malformed colour with both sizes given: the run got past the size check
C7_Witness ==
    /\ pc = "failed"
    /\ args.bg = "#12"
    /\ args.width # <<>> /\ args.height # <<>>
    /\ target_w = 500
    /\ error = "BadParameter"

\* natural order of two names, character by character: digit runs compare
\* by value, a digit or the end of the name comes before any other character
RECURSIVE NaturalLess(_, _)
NaturalLess(a, b) ==
    IF a = <<>> THEN b # <<>>
    ELSE IF b = <<>> THEN FALSE
    ELSE IF IsDigit(a[1]) /\ IsDigit(b[1])
    THEN LET na == RunLen(a, TRUE)
             nb == RunLen(b, TRUE)
             va == ToInt(SubSeq(a, 1, na))
             vb == ToInt(SubSeq(b, 1, nb))
         IN  IF va # vb THEN va < vb
             ELSE NaturalLess(SubSeq(a, na + 1, Len(a)),
                              SubSeq(b, nb + 1, Len(b)))
    ELSE IF IsDigit(a[1]) THEN TRUE
    ELSE IF IsDigit(b[1]) THEN FALSE
    ELSE IF a[1] = b[1] THEN NaturalLess(Tail(a), Tail(b))
    ELSE Ord(a[1]) < Ord(b[1])

\* C8: after a successful run the PDF has one page per discovered image,
\* page k (and exported slide k) is the target-sized canvas of the k-th
\* image, and the images are in natural order of their names (slide1,
\* slide2, slide10).
C8_PagesFollowNaturalOrder ==
    pc = "done"
        => /\ Len(disk.pdf) = Len(imgs)
           /\ \A i \in 1..Len(imgs) :
                  /\ disk.pdf[i].of = imgs[i]
                  /\ disk.pdf[i].w = target_w /\ disk.pdf[i].h = target_h
                  /\ args.export_dir => disk.slides[i] = disk.pdf[i]
           /\ \A i, j \in 1..Len(imgs) :
                  i < j => ~NaturalLess(FileAt(imgs[j]).name,
                                        FileAt(imgs[i]).name)
           /\ (args.paths = <<"deck">> /\ args.posix)
                  => imgs = <<"deck/slide1.png", "deck/slide2.png",
                              "deck/slide10.png">>

\* the deck and a file passed directly, exported and saved
C8_Witness ==
    /\ pc = "done"
    /\ args.paths = <<"deck", "cover.JPG">>
    /\ args.export_dir
    /\ imgs = <<"cover.JPG", "deck/slide1.png", "deck/slide2.png",
                "deck/slide10.png">>
    /\ Len(disk.pdf) = 4

\* the files a path argument reaches: itself, or those under the directory
Reached(f) ==
    \E i \in 1..Len(args.paths) :
        args.paths[i] = f.path \/ args.paths[i] \in f.under

\* C9 (as claimed): a file is discovered if and only if its extension,
\* lower-cased, is one of IMAGE_EXTS, passed directly or under a directory.
C9_DiscoveredIffImageExtension ==
    discovered
        => {imgs[i] : i \in 1..Len(imgs)}
             = {Files[i].path : i \in
                  {n \in 1..Len(Files) :
                      /\ Reached(Files[n])
                      /\ StrLower(PathSuffix(Files[n].name)) \in ExtSet}}

====
